---- MODULE Spec2Model ----
(***************************************************************************)
(* A model of sftp-exporter.py: the per-host checker_loop, one checker()   *)
(* cycle with its connection, the asyncio.gather fan-out over the folders, *)
(* the noop, attributes and put_get_del folder checks, and the gauges they *)
(* set; and of main(): loading the configuration, check() validating each  *)
(* entry and starting its loop, then serving the metrics endpoint.         *)
(*                                                                         *)
(* Every coroutine is a process whose pc names the await it is suspended   *)
(* at.  One action resumes one coroutine and runs it to its next await, as *)
(* the asyncio event loop does (cooperative scheduling: the code between   *)
(* two awaits is atomic).  What an awaited library call does (return or    *)
(* raise, and which exception class) is an input of the resuming action.   *)
(* A call raises the exception classes that the handlers around it name;   *)
(* a directory listing, which has no handler of its own, may also raise an *)
(* exception of a class that no handler of the program names ("Other").    *)
(***************************************************************************)
EXTENDS Integers, Sequences, FiniteSets, TLC

VARIABLES
    cfg,        \* the check definitions, one per host (never mutated)
    main,       \* main(): where the startup is, and what it has done
    clock,      \* time.time(), in whole seconds
    loop,       \* per host: the state of its checker_loop
    cyc,        \* per cycle: the state of its checker() coroutine
    task,       \* per cycle: the folder checks that its gather started
    registry,   \* the gauges: label tuple -> last value set
    remote      \* per host and folder: the contents of the remote probe file

vars == <<cfg, main, clock, loop, cyc, task, registry, remote>>

----------------------------------------------------------------------------
(* Bounds of the model. *)

\* cycles dispatched by the loop of a host that is followed over several ticks
MaxCycles == 2
\* folders of the host whose fan-out is followed
MaxFolders == 2
\* entries of the "checks" list of a configuration file
MaxChecks == 3
\* patterns of a check definition whose patterns vary
MaxPatterns == 2

Hosts == {"h1", "h2"}
Cyc == Hosts \X (1..MaxCycles)

----------------------------------------------------------------------------
(* File names, folder names and patterns are sequences of characters. *)

DOT == <<".">>
DOTDOT == <<".", ".">>
A_TXT == <<"a", ".", "t", "x", "t">>
B_LOG == <<"b", ".", "l", "o", "g">>
D02_TXT == <<"0", "2", ".", "t", "x", "t">>
PAT_TXT == <<"*", ".", "t", "x", "t">>
PAT_ALL == <<"*">>
PAT_DOTS == <<".", "*">>
PAT_DAY == <<"%", "d", "*">>
WWW == <<"w", "w", "w">>

\* the folder templates of a host with n folders: www1, www2, ...
FolderNames(n) == [i \in 1..n |-> WWW \o <<(<<"1", "2", "3", "4">>)[i]>>]

\* File contents are tuples: the probe contents written by an invocation, the
\* bytes of a transfer that was garbled, no bytes yet, no remote file.
NoBytes == <<>>
Absent == <<"absent">>
Garbled == <<"garbled">>

\* what the server returns for a listing of any folder
Listing == {DOT, DOTDOT, A_TXT, B_LOG, D02_TXT}

\* the attributes the server returns with a name: mtime, atime and size
Attrs(f) == [mtime |-> 5, atime |-> 7, size |-> Len(f)]

\* fnmatch.fnmatch on a POSIX host: "*" matches any run of characters
\* (leading dots included), "?" matches one character, the rest is literal.
RECURSIVE fnmatch(_, _)
fnmatch(name, pat) ==
    IF pat = <<>> THEN name = <<>>
    ELSE IF Head(pat) = "*"
         THEN fnmatch(name, Tail(pat))
              \/ (name # <<>> /\ fnmatch(Tail(name), pat))
    ELSE IF name = <<>> THEN FALSE
    ELSE IF Head(pat) = "?" THEN fnmatch(Tail(name), Tail(pat))
    ELSE Head(pat) = Head(name) /\ fnmatch(Tail(name), Tail(pat))

\* dateparser.parse of a base-date expression: the day of the month as two
\* digits, or "None" for an expression it cannot parse.
dateparser_parse(base) ==
    CASE base = "today" -> <<"0", "2">>
      [] base = "yesterday" -> <<"0", "1">>
      [] OTHER -> "None"

\* datetime.strftime with the directives %d and %%.
RECURSIVE strftime(_, _)
strftime(date, fmt) ==
    IF fmt = <<>> THEN <<>>
    ELSE IF Head(fmt) = "%" /\ Len(fmt) >= 2
         THEN (CASE fmt[2] = "d" -> date
                 [] fmt[2] = "%" -> <<"%">>
                 [] OTHER -> <<"%", fmt[2]>>)
              \o strftime(date, Tail(Tail(fmt)))
    ELSE <<Head(fmt)>> \o strftime(date, Tail(fmt))

\* C14 mutant: the names "." and ".." are matched like any other name
file_matcher_dots(smart_date_pattern, base_pattern_date, patterns, f) ==
    LET ps == IF smart_date_pattern
              THEN [k \in DOMAIN patterns |->
                       strftime(dateparser_parse(base_pattern_date), patterns[k])]
              ELSE patterns
    IN \E k \in DOMAIN ps : fnmatch(f, ps[k])

\* C15 mutant: a name matches only if every pattern matches it
file_matcher_all(smart_date_pattern, base_pattern_date, patterns, f) ==
    IF f \in {DOT, DOTDOT} THEN FALSE
    ELSE LET ps == IF smart_date_pattern
                   THEN [k \in DOMAIN patterns |->
                            strftime(dateparser_parse(base_pattern_date), patterns[k])]
                   ELSE patterns
         IN \A k \in DOMAIN ps : fnmatch(f, ps[k])

file_matcher(smart_date_pattern, base_pattern_date, patterns, f) ==
    IF f \in {DOT, DOTDOT} THEN FALSE
    ELSE LET ps == IF smart_date_pattern
                   THEN [k \in DOMAIN patterns |->
                            strftime(dateparser_parse(base_pattern_date), patterns[k])]
                   ELSE patterns
         IN \E k \in DOMAIN ps : fnmatch(f, ps[k])

\* check(): match_callback, the matcher bound to the host's patterns
match_callback(h, f) ==
    file_matcher(cfg[h].smart_pattern_date, cfg[h].base_pattern_date,
                 cfg[h].patterns, f)

\* check(): prepare_folder
prepare_folder(h, folder) ==
    IF cfg[h].smart_folder_date
    THEN strftime(dateparser_parse(cfg[h].base_folder_date), folder)
    ELSE folder

----------------------------------------------------------------------------
(* The check definitions. *)

HostConfig(checker, nfolders, timeout, cycles) ==
    [ checker |-> checker,
      folders |-> FolderNames(nfolders),
      patterns |-> <<PAT_TXT>>,
      timeout |-> timeout,
      username |-> "sftp",
      fixed_contents |-> FALSE,
      smart_pattern_date |-> FALSE,
      base_pattern_date |-> "today",
      smart_folder_date |-> FALSE,
      base_folder_date |-> "today",
      faithful |-> FALSE,
      cycles |-> cycles ]

\* the hosts that have a check definition
Checked == {h \in Hosts : cfg[h].cycles > 0}

NoCycle ==
    [ pc |-> "none", at |-> 0, now |-> 0, conn |-> "none",
      connRes |-> "none", sftpRes |-> "none", gexc |-> "none",
      exc |-> "none", health |-> <<>> ]

InitRest ==
    /\ clock = 0
    /\ loop = [h \in Hosts |-> [wake |-> 0, n |-> 0]]
    /\ cyc = [c \in Cyc |-> NoCycle]
    /\ task = [c \in Cyc |-> <<>>]
    /\ registry = <<>>
    /\ remote = [h \in Hosts |->
                    [f \in {prepare_folder(h, cfg[h].folders[i]) :
                                i \in 1..Len(cfg[h].folders)} |-> Absent]]

\* the entry of the configuration that host h was loaded from
CheckDefOf(h) ==
    [ host |-> h, port |-> "absent", password |-> "secret",
      client_key_file |-> "absent", checker |-> cfg[h].checker ]

\* main() after a startup that loaded the entries of the checked hosts,
\* started a loop for each, and now serves the endpoint
Served ==
    LET hs == SelectSeq(<<"h1", "h2">>, LAMBDA h : h \in Checked)
        checks == [k \in 1..Len(hs) |-> CheckDefOf(hs[k])]
    IN [ pc |-> "serving", config_file |-> "ok", file_checks |-> checks,
         skip_wrong_config |-> FALSE, checks |-> checks, i |-> Len(checks) + 1,
         exit_code |-> 0, started |-> 1..Len(checks), rejected |-> {},
         error |-> "none", served |-> TRUE ]

\* one host, one cycle, a put_get_del check fanned out over its folders
InitFan ==
    /\ cfg = [h \in Hosts |->
                IF h = "h1" THEN HostConfig("put_get_del", MaxFolders, 1, 1)
                ELSE HostConfig("noop", 0, 1, 0)]
    /\ main = Served
    /\ InitRest

\* the pattern lists of a check definition
PatternLists ==
    UNION {[1..n -> {PAT_ALL, PAT_TXT, PAT_DOTS, PAT_DAY}] : n \in 0..MaxPatterns}

\* two hosts with the same patterns, one cycle each: h1 runs a noop check
\* and h2 an attributes check
InitMatch ==
    /\ \E ps \in PatternLists, smart \in BOOLEAN :
          cfg = [h \in Hosts |->
                   [HostConfig(IF h = "h1" THEN "noop" ELSE "attributes", 1, 1, 1)
                       EXCEPT !.patterns = ps, !.smart_pattern_date = smart]]
    /\ main = Served
    /\ InitRest

\* one host whose server is faithful: it keeps and returns the bytes it was
\* given and fails no request made on an open session, except for a file
\* that does not exist.  The host runs one cycle of put_get_del checks on
\* the same folder, configured twice; the probe contents are fixed or a
\* fresh uuid4.
InitShared ==
    /\ \E fixed \in BOOLEAN :
          cfg = [h \in Hosts |->
                   IF h = "h1"
                   THEN [HostConfig("put_get_del", 2, 1, 1)
                            EXCEPT !.folders = <<FolderNames(1)[1], FolderNames(1)[1]>>,
                                   !.fixed_contents = fixed,
                                   !.faithful = TRUE]
                   ELSE HostConfig("noop", 0, 1, 0)]
    /\ main = Served
    /\ InitRest

\* two hosts: h1 runs one put_get_del cycle, h2 a noop cycle every second
InitHosts ==
    /\ cfg = [h \in Hosts |->
                IF h = "h1" THEN HostConfig("put_get_del", 1, 2, 1)
                ELSE HostConfig("noop", 1, 1, MaxCycles)]
    /\ main = Served
    /\ InitRest

----------------------------------------------------------------------------
(* The gauges.  A label tuple is <<gauge name, label values...>>. *)

\* Gauge.labels(...).set(v): last write wins per label tuple
SetGauges(reg, labels, v) ==
    [l \in DOMAIN reg \cup labels |-> IF l \in labels THEN v ELSE reg[l]]

HostUpLabel(h, state) == <<"sftp_host_up", h, cfg[h].username, state>>
SeenLabel(h, folder, f) == <<"sftp_last_seen_timestamp", folder, f, h>>
\* the label tuple of a gauge of the attributes check
AttrLabel(metric, h, folder, f) == <<metric, folder, f, h>>
\* C16 mutant: every capability sample is labelled with state Error
expose_error(h, folder, metric, state) == <<metric, h, cfg[h].username, folder, "Error">>

\* put_get_del_checker: expose(_metric, _state)
expose(h, folder, metric, state) == <<metric, h, cfg[h].username, folder, state>>

----------------------------------------------------------------------------
(* checker_loop *)

\* C9 mutant: the loop sleeps a second longer than the configured interval
SleepUntilSlow(h, t) == t + cfg[h].timeout + 1

\* await asyncio.sleep(timeout), entered at time t: the time the loop wakes
SleepUntil(h, t) == t + cfg[h].timeout

\* C11 mutant: the loop awaits the task it spawned last before it iterates,
\* so an exception that left checker() leaves the loop too and ends it
LoopTickAwaited(h) ==
    /\ loop[h].n < cfg[h].cycles
    /\ clock >= loop[h].wake
    /\ \A n \in 1..loop[h].n : cyc[<<h, n>>].pc # "raised"
    /\ cyc' = [cyc EXCEPT ![<<h, loop[h].n + 1>>] =
                  [NoCycle EXCEPT !.pc = "start", !.at = clock]]
    /\ loop' = [loop EXCEPT ![h] = [wake |-> SleepUntil(h, clock), n |-> @.n + 1]]
    /\ UNCHANGED <<cfg, main, clock, task, registry, remote>>

\* One iteration of "while True": spawn a checker() task, then sleep.
\* The spawned task is not awaited.
LoopTick(h) ==
    /\ loop[h].n < cfg[h].cycles
    /\ clock >= loop[h].wake
    /\ cyc' = [cyc EXCEPT ![<<h, loop[h].n + 1>>] =
                  [NoCycle EXCEPT !.pc = "start", !.at = clock]]
    /\ loop' = [loop EXCEPT ![h] = [wake |-> SleepUntil(h, clock), n |-> @.n + 1]]
    /\ UNCHANGED <<cfg, main, clock, task, registry, remote>>

\* the last time the model follows: that of the last dispatch of a loop
Horizon ==
    LET ends == {(cfg[h].cycles - 1) * cfg[h].timeout : h \in Checked}
    IN CHOOSE m \in ends : \A e \in ends : e <= m

\* C10 mutant: connecting blocks the event loop, so no timer fires meanwhile
ReadyBlocking(c) == cyc[c].pc \in {"start", "connect"}

\* a checker() task that the event loop can run without waiting for I/O
Ready(c) == cyc[c].pc = "start"

\* A second passes.  The event loop runs what is ready before it waits: it
\* resumes a sleeping checker_loop when its timer is due and starts a spawned
\* checker() task at once, so time passes neither a due timer nor a ready task.
Tick ==
    /\ clock < Horizon
    /\ \A h \in Hosts : loop[h].n < cfg[h].cycles => clock < loop[h].wake
    /\ \A c \in Cyc : ~Ready(c)
    /\ clock' = clock + 1
    /\ UNCHANGED <<cfg, main, loop, cyc, task, registry, remote>>

----------------------------------------------------------------------------
(* checker(): one cycle *)

\* C4 mutant: the first handler also catches socket.gaierror
OuterHandlerBroad(exc) ==
    CASE exc \in {"Error", "SFTPError", "gaierror"} -> "ConnectError"
      [] OTHER -> "none"

\* which handler of checker()'s outer try catches an exception class, as the
\* host-health state it records; "none" when no handler catches it
OuterHandler(exc) ==
    CASE exc \in {"Error", "SFTPError"} -> "ConnectError"
      [] exc = "gaierror" -> "DNSError"
      [] OTHER -> "none"

\* sftp_host_up.labels(host, username, state).set(now) in cycle record cy
RecordHealth(cy, state) ==
    IF state = "none" THEN cy ELSE [cy EXCEPT !.health = Append(@, state)]

\* C3 mutant: the connection is closed after the try statement instead of in
\* its finally clause, so an exception that no handler catches skips it
EndTryNoFinally(cy, exc) ==
    LET state == OuterHandler(exc)
        pending == IF exc # "none" /\ state = "none" THEN exc ELSE "none"
        cy1 == [RecordHealth(cy, state) EXCEPT !.exc = pending]
    IN IF cy.conn = "open" /\ pending = "none"
       THEN [cy1 EXCEPT !.conn = "closing", !.pc = "wait_closed"]
       ELSE [cy1 EXCEPT !.pc = IF pending = "none" THEN "done" ELSE "raised"]

\* The end of the outer try statement when its body raised exc ("none": it
\* completed): the handlers, then the finally clause, which closes the
\* connection if there is one and awaits wait_closed().
EndTry(cy, exc) ==
    LET state == OuterHandler(exc)
        pending == IF exc # "none" /\ state = "none" THEN exc ELSE "none"
        cy1 == [RecordHealth(cy, state) EXCEPT !.exc = pending]
    IN IF cy.conn = "open"
       THEN [cy1 EXCEPT !.conn = "closing", !.pc = "wait_closed"]
       ELSE [cy1 EXCEPT !.pc = IF pending = "none" THEN "done" ELSE "raised"]

\* the registry after cycle c moved from record cy to record cy1
HealthWritten(h, cy, cy1) ==
    IF Len(cy1.health) > Len(cy.health)
    THEN SetGauges(registry, {HostUpLabel(h, cy1.health[Len(cy1.health)])}, cy1.now)
    ELSE registry

\* the task starts running: now = int(time.time()), then asyncssh.connect
CheckerBegin(c) ==
    /\ cyc[c].pc = "start"
    /\ cyc' = [cyc EXCEPT ![c].pc = "connect", ![c].now = clock]
    /\ UNCHANGED <<cfg, main, clock, loop, task, registry, remote>>

\* await asyncssh.connect(**kw) returns or raises
ConnectReturns(c) ==
    /\ cyc[c].pc = "connect"
    /\ \E r \in {"Ok", "Error", "gaierror"} :
         LET cy == [cyc[c] EXCEPT !.connRes = r]
             cy1 == IF r = "Ok"
                    THEN [cy EXCEPT !.conn = "open", !.pc = "sftp"]
                    ELSE EndTry(cy, r)
         IN /\ cyc' = [cyc EXCEPT ![c] = cy1]
            /\ registry' = HealthWritten(c[1], cy, cy1)
    /\ UNCHANGED <<cfg, main, clock, loop, task, remote>>

\* the await a folder check of host h is suspended at first
FirstAwait(h) == IF cfg[h].checker = "attributes" THEN "readdir" ELSE "listdir"

NewTask(folder) ==
    [ pc |-> "listdir", folder |-> folder, exc |-> "none",
      listRes |-> "none", putRes |-> "none", getRes |-> "none", delRes |-> "none",
      contents |-> NoBytes, got |-> NoBytes, pathw |-> FALSE, pathr |-> FALSE,
      log |-> {} ]

\* await conn.start_sftp_client() returns or raises.  On return the host is
\* recorded up and asyncio.gather starts one folder check per folder.
StartSftpReturns(c) ==
    /\ cyc[c].pc = "sftp"
    /\ \E r \in {"Ok", "SFTPError"} :
         LET h == c[1]
             cy == [cyc[c] EXCEPT !.sftpRes = r]
             cy1 == IF r = "Ok"
                    THEN [RecordHealth(cy, "Ok") EXCEPT !.pc = "gather"]
                    ELSE EndTry(RecordHealth(cy, "SFTPError"), "none")
         IN /\ cyc' = [cyc EXCEPT ![c] = cy1]
            /\ registry' = HealthWritten(h, cy, cy1)
            /\ task' = IF r = "Ok"
                       THEN [task EXCEPT ![c] =
                               [i \in 1..Len(cfg[h].folders) |->
                                  [NewTask(prepare_folder(h, cfg[h].folders[i]))
                                      EXCEPT !.pc = FirstAwait(h)]]]
                       ELSE task
    /\ UNCHANGED <<cfg, main, clock, loop, remote>>

Finished(t) == t.pc \in {"done", "raised"}

\* "await asyncio.gather(...)" resumes checker(): with the first exception a
\* folder check raised, as soon as it is raised, or else once every folder
\* check has returned.
GatherResumes(c) ==
    \/ cyc[c].gexc # "none"
    \/ \A i \in DOMAIN task[c] : task[c][i].pc = "done"

GatherReturns(c) ==
    /\ cyc[c].pc = "gather"
    /\ GatherResumes(c)
    /\ LET cy1 == EndTry(cyc[c], cyc[c].gexc)
       IN /\ cyc' = [cyc EXCEPT ![c] = cy1]
          /\ registry' = HealthWritten(c[1], cyc[c], cy1)
    /\ UNCHANGED <<cfg, main, clock, loop, task, remote>>

\* await conn.wait_closed() returns: the teardown is complete
WaitClosedReturns(c) ==
    /\ cyc[c].pc = "wait_closed"
    /\ cyc' = [cyc EXCEPT ![c].conn = "closed",
                          ![c].pc = IF cyc[c].exc = "none" THEN "done" ELSE "raised"]
    /\ UNCHANGED <<cfg, main, clock, loop, task, registry, remote>>

----------------------------------------------------------------------------
(* The folder checks *)

\* what a request on the cycle's SFTP client can do: on a connection that is
\* closing or closed it fails
ClientResults(c) ==
    IF cyc[c].conn # "open" THEN {"SFTPError"}
    ELSE IF cfg[c[1]].faithful THEN {"Ok"}
    ELSE {"Ok", "SFTPError"}

\* the bytes a get can deliver when the remote file holds stored
Delivered(c, stored) ==
    IF cfg[c[1]].faithful THEN {stored} ELSE {stored, Garbled}

\* C17 mutant: put_get_del_checker goes on to the put when the listing raised
RaiseIgnored(c, i, t, exc) ==
    /\ task' = [task EXCEPT ![c][i] = [t EXCEPT !.pc = "put", !.exc = exc]]
    /\ UNCHANGED cyc

\* what a listing can do: it may also raise an exception of a class that no
\* handler names
ListResults(c) ==
    ClientResults(c) \cup
        (IF cyc[c].conn = "open" /\ ~cfg[c[1]].faithful THEN {"Other"} ELSE {})

\* a folder check raises exc: gather passes the first exception on
Raise(c, i, t, exc) ==
    /\ task' = [task EXCEPT ![c][i] = [t EXCEPT !.pc = "raised", !.exc = exc]]
    /\ cyc' = [cyc EXCEPT ![c].gexc = IF @ = "none" THEN exc ELSE @]

\* put_get_del_checker after noop_checker returned: the probe contents
\* (uuid4 unless configured), the local source file, then client.put
StartPut(c, i, t) ==
    [t EXCEPT !.contents = IF cfg[c[1]].fixed_contents THEN <<"fixed">>
                              ELSE <<"uuid4", c[1], c[2], i>>,
              !.pathw = TRUE,
              !.pc = "put"]

\* noop_checker: await client.listdir(folder) returns or raises
ListdirReturns(c, i) ==
    /\ i \in DOMAIN task[c]
    /\ task[c][i].pc = "listdir"
    /\ \E r \in ListResults(c) :
         LET h == c[1]
             t == [task[c][i] EXCEPT !.listRes = r]
             matched_files == {f \in Listing : match_callback(h, f)}
             t1 == [t EXCEPT !.log = @ \cup {<<"sftp_last_seen_timestamp", f>> :
                                                 f \in matched_files}]
         IN IF r = "Ok"
            THEN /\ registry' = SetGauges(registry,
                                  {SeenLabel(h, t.folder, f) : f \in matched_files},
                                  cyc[c].now)
                 /\ task' = [task EXCEPT ![c][i] =
                               IF cfg[h].checker = "put_get_del"
                               THEN StartPut(c, i, t1)
                               ELSE [t1 EXCEPT !.pc = "done"]]
                 /\ UNCHANGED cyc
            ELSE /\ Raise(c, i, t, r)
                 /\ UNCHANGED registry
    /\ UNCHANGED <<cfg, main, clock, loop, remote>>

\* attributes_checker: await client.readdir(folder) returns or raises
ReaddirReturns(c, i) ==
    /\ i \in DOMAIN task[c]
    /\ task[c][i].pc = "readdir"
    /\ \E r \in ListResults(c) :
         LET h == c[1]
             t == [task[c][i] EXCEPT !.listRes = r]
             matched_files == {f \in Listing : match_callback(h, f)}
             gauges == {"sftp_file_modified_timestamp", "sftp_file_access_timestamp",
                        "sftp_file_size"}
             value(l) == CASE l[1] = "sftp_file_modified_timestamp" -> Attrs(l[3]).mtime
                           [] l[1] = "sftp_file_access_timestamp" -> Attrs(l[3]).atime
                           [] OTHER -> Attrs(l[3]).size
             labels == {AttrLabel(g, h, t.folder, f) : g \in gauges, f \in matched_files}
         IN IF r = "Ok"
            THEN /\ registry' = [l \in DOMAIN registry \cup labels |->
                                    IF l \in labels THEN value(l) ELSE registry[l]]
                 /\ task' = [task EXCEPT ![c][i] =
                               [t EXCEPT !.log = @ \cup (gauges \X matched_files),
                                         !.pc = "done"]]
                 /\ UNCHANGED cyc
            ELSE /\ Raise(c, i, t, r)
                 /\ UNCHANGED registry
    /\ UNCHANGED <<cfg, main, clock, loop, remote>>

\* C5 mutant: a failed put does not stop the invocation
AfterPutAlways(r) == "get"

\* the step put_get_del_checker is at after client.put ended with r
AfterPut(r) == IF r = "Ok" THEN "get" ELSE "done"

\* await client.put(pathw, remote_file_name) returns or raises SFTPError
PutReturns(c, i) ==
    /\ i \in DOMAIN task[c]
    /\ task[c][i].pc = "put"
    /\ \E r \in ClientResults(c) :
         LET h == c[1]
             t == [task[c][i] EXCEPT !.putRes = r]
             state == IF r = "Ok" THEN "Ok" ELSE "Error"
             t1 == [t EXCEPT !.log = @ \cup {<<"sftp_put_file_up", state>>},
                             !.pc = AfterPut(r)]
         IN /\ registry' = SetGauges(registry,
                              {expose(h, t.folder, "sftp_put_file_up", state)}, cyc[c].now)
            /\ remote' = IF r = "Ok"
                         THEN [remote EXCEPT ![h][t.folder] = t.contents]
                         ELSE remote
            /\ task' = [task EXCEPT ![c][i] =
                          IF t1.pc = "get"
                          THEN [t1 EXCEPT !.pathr = TRUE]
                          ELSE [t1 EXCEPT !.pathw = FALSE]]
    /\ UNCHANGED <<cfg, main, clock, loop, cyc>>

\* C7 mutant: the files are not compared
GetStateAlwaysOk(written, read) == "Ok"

\* C6 mutant: a failed get does not stop the invocation
AfterGetAlways(r) == "remove"

\* the gauge state after client.get returned: filecmp.cmp(pathw, pathr)
GetState(written, read) == IF written = read THEN "Ok" ELSE "Corrupted"

\* the step put_get_del_checker is at after client.get ended with r
AfterGet(r) == IF r = "Ok" THEN "remove" ELSE "done"

\* await client.get(remote_file_name, pathr) returns or raises SFTPError.
\* The bytes that arrive are those of the remote file, or garbled ones.
GetReturns(c, i) ==
    /\ i \in DOMAIN task[c]
    /\ task[c][i].pc = "get"
    /\ LET h == c[1]
           t0 == task[c][i]
           stored == remote[h][t0.folder]
       IN \E r \in (IF stored = Absent THEN {"SFTPError"} ELSE ClientResults(c)) :
          \E got \in (IF r = "Ok" THEN Delivered(c, stored) ELSE {NoBytes}) :
            LET t == [t0 EXCEPT !.getRes = r, !.got = got]
                state == IF r = "Ok" THEN GetState(t.contents, got) ELSE "Error"
                t1 == [t EXCEPT !.log = @ \cup {<<"sftp_get_file_up", state>>},
                                !.pc = AfterGet(r)]
            IN /\ registry' = SetGauges(registry,
                                 {expose(h, t.folder, "sftp_get_file_up", state)},
                                 cyc[c].now)
               /\ task' = [task EXCEPT ![c][i] =
                             IF t1.pc = "remove" THEN t1
                             ELSE [t1 EXCEPT !.pathr = FALSE, !.pathw = FALSE]]
    /\ UNCHANGED <<cfg, main, clock, loop, cyc, remote>>

\* await client.remove(remote_file_name) returns or raises SFTPError; then the
\* finally clauses remove both local files
RemoveReturns(c, i) ==
    /\ i \in DOMAIN task[c]
    /\ task[c][i].pc = "remove"
    /\ LET h == c[1]
           t0 == task[c][i]
           stored == remote[h][t0.folder]
       IN \E r \in (IF stored = Absent THEN {"SFTPError"} ELSE ClientResults(c)) :
            LET t == [t0 EXCEPT !.delRes = r]
                state == IF r = "Ok" THEN "Ok" ELSE "Error"
            IN /\ registry' = SetGauges(registry,
                                 {expose(h, t.folder, "sftp_del_file_up", state)},
                                 cyc[c].now)
               /\ remote' = IF r = "Ok"
                            THEN [remote EXCEPT ![h][t.folder] = Absent]
                            ELSE remote
               /\ task' = [task EXCEPT ![c][i] =
                             [t EXCEPT !.log = @ \cup {<<"sftp_del_file_up", state>>},
                                       !.pathr = FALSE, !.pathw = FALSE,
                                       !.pc = "done"]]
    /\ UNCHANGED <<cfg, main, clock, loop, cyc>>

----------------------------------------------------------------------------
(* main() and the validation in check().  An entry of the "checks" list is *)
(* a record of the keys the validation reads; "absent" is a key that the   *)
(* entry does not have, and a port is given by the type of its value.      *)

\* every entry over the values that the validation tells apart
CheckDefs ==
    [ host : {"h1", "absent"},
      port : {"absent", "int", "str"},
      password : {"secret", "absent"},
      client_key_file : {"id_rsa", "absent"},
      checker : {"absent", "put_get_del", "bogus"} ]

\* an entry with a host and a password, everything else left to the defaults
PasswordDef ==
    [ host |-> "h1", port |-> "absent", password |-> "secret",
      client_key_file |-> "absent", checker |-> "absent" ]

\* the entries that lists of several entries are made of: two that check()
\* accepts and one for each way in which it rejects an entry
SampleDefs ==
    { PasswordDef,
      [PasswordDef EXCEPT !.password = "absent", !.client_key_file = "id_rsa",
                          !.port = "int", !.checker = "put_get_del"],
      [PasswordDef EXCEPT !.client_key_file = "id_rsa"],
      [PasswordDef EXCEPT !.password = "absent"],
      [PasswordDef EXCEPT !.host = "absent"],
      [PasswordDef EXCEPT !.port = "str"],
      [PasswordDef EXCEPT !.checker = "bogus"] }

\* the "checks" lists a configuration file can hold: any single entry, or up
\* to MaxChecks of the sample entries
CheckLists ==
    {<<d>> : d \in CheckDefs} \cup UNION {[1..n -> SampleDefs] : n \in 0..MaxChecks}

\* dict.get(key, default)
get(d, key, default) == IF d[key] = "absent" THEN default ELSE d[key]

\* the module's functions named <callback>_checker
checkers == {"noop", "attributes", "put_get_del"}

\* C12 mutant: check() does not refuse an entry that has both credentials
check_accepts_both(callback, sftp_details) ==
    LET host == get(sftp_details, "host", "absent")
        port == get(sftp_details, "port", "int")
        password == get(sftp_details, "password", "absent")
        client_key_file == get(sftp_details, "client_key_file", "absent")
    IN IF host = "absent" THEN "Host not specified"
       ELSE IF port # "int" THEN "Invalid port value"
       ELSE IF password = "absent" /\ client_key_file = "absent"
            THEN "At least one of password, client_key_file"
       ELSE IF callback \notin checkers THEN "Invalid checker function"
       ELSE "none"

\* check() up to the lookup of the checker: the message of the
\* AssertionError it raises, "none" if it raises none
check(callback, sftp_details) ==
    LET host == get(sftp_details, "host", "absent")
        port == get(sftp_details, "port", "int")
        password == get(sftp_details, "password", "absent")
        client_key_file == get(sftp_details, "client_key_file", "absent")
    IN IF host = "absent" THEN "Host not specified"
       ELSE IF port # "int" THEN "Invalid port value"
       ELSE IF password # "absent" /\ client_key_file # "absent"
            THEN "Either password or client key, but not both"
       ELSE IF password = "absent" /\ client_key_file = "absent"
            THEN "At least one of password, client_key_file"
       ELSE IF callback \notin checkers THEN "Invalid checker function"
       ELSE "none"

\* main() before it has read anything
MainStart(config_file, file_checks, skip_wrong_config) ==
    [ pc |-> "start", config_file |-> config_file, file_checks |-> file_checks,
      skip_wrong_config |-> skip_wrong_config, checks |-> <<>>, i |-> 1,
      exit_code |-> 0, started |-> {}, rejected |-> {}, error |-> "none",
      served |-> FALSE ]

\* a startup: the configuration file is missing, is not YAML, or holds a
\* list of entries; --skip-wrong-config is given or not
InitMain ==
    /\ cfg = [h \in Hosts |-> HostConfig("noop", 0, 1, 0)]
    /\ main \in {MainStart("missing", <<>>, s) : s \in BOOLEAN}
             \cup {MainStart("bad_yaml", <<>>, s) : s \in BOOLEAN}
             \cup {MainStart("ok", l, s) : l \in CheckLists, s \in BOOLEAN}
    /\ InitRest

\* main() up to "if not exit_code": the file is looked up, read and parsed
MainLoad ==
    /\ main.pc = "start"
    /\ main' = CASE main.config_file = "missing" ->
                      [main EXCEPT !.exit_code = 1, !.pc = "exit"]
                  [] main.config_file = "bad_yaml" ->
                      [main EXCEPT !.exit_code = 2, !.pc = "exit"]
                  [] OTHER ->
                      [main EXCEPT !.checks = main.file_checks, !.pc = "checks"]
    /\ UNCHANGED <<cfg, clock, loop, cyc, task, registry, remote>>

\* C13 mutant: an invalid entry is skipped whether the flag is given or not
ExceptAssertionErrorSkips(m, e) ==
    [m EXCEPT !.error = e, !.rejected = @ \cup {m.i}, !.i = @ + 1]

\* main()'s handler of the AssertionError, with message e, of an entry
ExceptAssertionError(m, e) ==
    IF m.skip_wrong_config
    THEN [m EXCEPT !.error = e, !.rejected = @ \cup {m.i}, !.i = @ + 1]
    ELSE [m EXCEPT !.error = e, !.rejected = @ \cup {m.i}, !.exit_code = 3,
                   !.pc = "exit"]

\* one iteration of "for check_def in checks": check() either raises or
\* ends with asyncio.ensure_future(checker_loop())
MainCheck ==
    /\ main.pc = "checks"
    /\ main.i <= Len(main.checks)
    /\ LET check_def == main.checks[main.i]
           e == check(get(check_def, "checker", "noop"), check_def)
       IN main' = IF e = "none"
                  THEN [main EXCEPT !.started = @ \cup {main.i}, !.i = @ + 1]
                  ELSE ExceptAssertionError(main, e)
    /\ UNCHANGED <<cfg, clock, loop, cyc, task, registry, remote>>

\* the else clause of the for statement: the list ended without a break
MainServe ==
    /\ main.pc = "checks"
    /\ main.i > Len(main.checks)
    /\ main' = [main EXCEPT !.pc = "serving", !.served = TRUE]
    /\ UNCHANGED <<cfg, clock, loop, cyc, task, registry, remote>>

\* web.run_app returns: the server was shut down
RunAppReturns ==
    /\ main.pc = "serving"
    /\ main' = [main EXCEPT !.pc = "exit"]
    /\ UNCHANGED <<cfg, clock, loop, cyc, task, registry, remote>>

\* exit(exit_code)
MainExit ==
    /\ main.pc = "exit"
    /\ main' = [main EXCEPT !.pc = "exited"]
    /\ UNCHANGED <<cfg, clock, loop, cyc, task, registry, remote>>

NextMain == MainLoad \/ MainCheck \/ MainServe \/ RunAppReturns \/ MainExit

\* the startup, from any configuration file
SpecMain == InitMain /\ [][NextMain]_vars

----------------------------------------------------------------------------

Folders == 1..(MaxFolders + 1)

\* the steps of the cycles and of their folder checks
NextCycle ==
    \/ \E h \in Hosts : LoopTick(h)
    \/ \E c \in Cyc : CheckerBegin(c)
    \/ \E c \in Cyc : ConnectReturns(c)
    \/ \E c \in Cyc : StartSftpReturns(c)
    \/ \E c \in Cyc : GatherReturns(c)
    \/ \E c \in Cyc : WaitClosedReturns(c)
    \/ \E c \in Cyc, i \in Folders : ListdirReturns(c, i)
    \/ \E c \in Cyc, i \in Folders : PutReturns(c, i)
    \/ \E c \in Cyc, i \in Folders : GetReturns(c, i)
    \/ \E c \in Cyc, i \in Folders : RemoveReturns(c, i)

Next == Tick \/ NextCycle

\* the steps of cycles that run noop and attributes checks
NextMatch ==
    \/ \E h \in Hosts : LoopTick(h)
    \/ \E c \in Cyc : CheckerBegin(c)
    \/ \E c \in Cyc : ConnectReturns(c)
    \/ \E c \in Cyc : StartSftpReturns(c)
    \/ \E c \in Cyc : GatherReturns(c)
    \/ \E c \in Cyc : WaitClosedReturns(c)
    \/ \E c \in Cyc, i \in Folders : ListdirReturns(c, i)
    \/ \E c \in Cyc, i \in Folders : ReaddirReturns(c, i)

\* one cycle fanned out over several folders; no second tick is followed
Spec == InitFan /\ [][NextCycle]_vars

\* two hosts side by side over several ticks
SpecHosts == InitHosts /\ [][Next]_vars

\* put_get_del checks that share one remote path, on a faithful server
SpecShared == InitShared /\ [][NextCycle]_vars

\* a noop check and an attributes check, over every pattern list
SpecMatch == InitMatch /\ [][NextMatch]_vars

\* a resumption of checker() cycle c or of one of its folder checks
CycleStep(c) ==
    \/ ConnectReturns(c)
    \/ StartSftpReturns(c)
    \/ GatherReturns(c)
    \/ WaitClosedReturns(c)
    \/ \E i \in Folders :
         ListdirReturns(c, i) \/ PutReturns(c, i) \/ GetReturns(c, i) \/ RemoveReturns(c, i)

\* the awaited calls of cycle c end, and the event loop resumes the coroutine
\* that awaits them: the cycle is not held up forever
CycleFair(c) == WF_vars(CycleStep(c))

\* the loops run and spawned tasks start
LoopFair ==
    /\ \A h \in Hosts : WF_vars(LoopTick(h))
    /\ \A c \in Cyc : WF_vars(CheckerBegin(c))

\* one cycle fanned out over several folders, every awaited call ending
SpecFair == InitFan /\ [][NextCycle]_vars /\ LoopFair /\ \A c \in Cyc : CycleFair(c)

----------------------------------------------------------------------------
(* The claims *)

Running(t) == t.pc \in {"listdir", "put", "get", "remove"}
Failed(t) == t.pc = "raised" \/ "SFTPError" \in {t.putRes, t.getRes, t.delRes}
Logged(t, metric) == {e \in t.log : e[1] = metric}
\* the states of a capability gauge that the registry holds for a folder
Held(h, folder, metric) ==
    {state \in {"Ok", "Error", "Corrupted"} :
        expose(h, folder, metric, state) \in DOMAIN registry}

\* C1: in no reachable state has the connection of a cycle been closed while
\* a folder check of that cycle is still running.
C1_ClosedOnlyAfterChecks ==
    \A c \in Cyc :
        cyc[c].conn = "closed" => \A i \in DOMAIN task[c] : Finished(task[c][i])

\* C2: after a folder check of a cycle failed, every sibling that is still
\* running has the cycle's session open, so that its remaining probe steps
\* can be carried out and are not cut short.
C2_SiblingsRunToCompletion ==
    \A c \in Cyc : \A i, j \in DOMAIN task[c] :
        (i # j /\ Failed(task[c][i]) /\ Running(task[c][j])) => cyc[c].conn = "open"

\* C3: every session that a cycle opened is eventually closed by that cycle,
\* its teardown awaited.
C3_OpenedIsClosed ==
    \A c \in Cyc : [](cyc[c].conn = "open" => <>(cyc[c].conn = "closed"))

\* C3 witness: a folder check raised an exception no handler catches, it left
\* checker(), and the session is closed.
C3_Witness ==
    \E c \in Cyc : cyc[c].pc = "raised" /\ cyc[c].exc = "Other" /\ cyc[c].conn = "closed"

\* the host-health state that names the failure class of a failed opening
C4_FailureState(cy) ==
    CASE cy.connRes = "gaierror" -> "DNSError"
      [] cy.connRes = "Error" -> "ConnectError"
      [] cy.sftpRes = "SFTPError" -> "SFTPError"
      [] OTHER -> "none"

C5_PutFailureStops ==
    \A c \in Cyc : \A i \in DOMAIN task[c] :
        LET t == task[c][i] IN
        t.putRes = "SFTPError" =>
            /\ Logged(t, "sftp_put_file_up") = {<<"sftp_put_file_up", "Error">>}
            /\ registry[expose(c[1], t.folder, "sftp_put_file_up", "Error")] = cyc[c].now
            /\ t.pc = "done"
            /\ t.getRes = "none" /\ t.delRes = "none"
            /\ Logged(t, "sftp_get_file_up") = {} /\ Logged(t, "sftp_del_file_up") = {}
            /\ Held(c[1], t.folder, "sftp_get_file_up") = {}
            /\ Held(c[1], t.folder, "sftp_del_file_up") = {}

\* C5 witness: a put failed on an open session.
C5_Witness ==
    \E c \in Cyc : \E i \in DOMAIN task[c] :
        task[c][i].putRes = "SFTPError" /\ cyc[c].conn = "open"

\* C6: when the put succeeded and reading the probe file back fails, the get
\* sample is written with state Error, the delete is not attempted and no
\* delete sample is written.
C6_GetFailureStops ==
    \A c \in Cyc : \A i \in DOMAIN task[c] :
        LET t == task[c][i] IN
        (t.putRes = "Ok" /\ t.getRes = "SFTPError") =>
            /\ Logged(t, "sftp_get_file_up") = {<<"sftp_get_file_up", "Error">>}
            /\ registry[expose(c[1], t.folder, "sftp_get_file_up", "Error")] = cyc[c].now
            /\ t.pc = "done"
            /\ t.delRes = "none"
            /\ Logged(t, "sftp_del_file_up") = {}
            /\ Held(c[1], t.folder, "sftp_del_file_up") = {}

\* C6 witness: a get failed on an open session after a put that succeeded.
C6_Witness ==
    \E c \in Cyc : \E i \in DOMAIN task[c] :
        /\ task[c][i].putRes = "Ok" /\ task[c][i].getRes = "SFTPError"
        /\ cyc[c].conn = "open"

\* C7: when put and get both succeeded, the get sample is Ok exactly when
\* the bytes read equal the bytes written and Corrupted otherwise, and in
\* both cases the delete is attempted and a delete sample, Ok or Error, is
\* written when it ends.
C7_CompareThenDelete ==
    \A c \in Cyc : \A i \in DOMAIN task[c] :
        LET t == task[c][i] IN
        (t.putRes = "Ok" /\ t.getRes = "Ok") =>
            /\ Logged(t, "sftp_get_file_up") =
                 {<<"sftp_get_file_up", IF t.got = t.contents THEN "Ok" ELSE "Corrupted">>}
            /\ Held(c[1], t.folder, "sftp_get_file_up") =
                 {IF t.got = t.contents THEN "Ok" ELSE "Corrupted"}
            /\ t.pc = "remove" \/ t.delRes # "none"
            /\ t.pc = "remove" => Logged(t, "sftp_del_file_up") = {}
            /\ t.delRes # "none" =>
                 /\ Logged(t, "sftp_del_file_up") =
                      {<<"sftp_del_file_up", IF t.delRes = "Ok" THEN "Ok" ELSE "Error">>}
                 /\ Held(c[1], t.folder, "sftp_del_file_up") =
                      {IF t.delRes = "Ok" THEN "Ok" ELSE "Error"}

\* C7 witness: the bytes read back differed and the delete has been carried out.
C7_Witness ==
    \E c \in Cyc : \E i \in DOMAIN task[c] :
        LET t == task[c][i] IN
        /\ t.putRes = "Ok" /\ t.getRes = "Ok" /\ t.got # t.contents
        /\ t.delRes = "Ok"

\* C8: an invocation whose put has written the remote probe file attempts to
\* delete it before it ends.
C8_ProbeFileRemoved ==
    \A c \in Cyc : \A i \in DOMAIN task[c] :
        LET t == task[c][i] IN
        (t.putRes = "Ok" /\ Finished(t)) => t.delRes # "none"

\* C9: the loop of a host dispatches cycle n+1 exactly one interval after it
\* dispatched cycle n, whatever state cycle n is in.
C9_TicksOneIntervalApart ==
    \A h \in Hosts :
        /\ \A n \in 1..(MaxCycles - 1) :
              cyc[<<h, n + 1>>].pc # "none" =>
                  cyc[<<h, n + 1>>].at = cyc[<<h, n>>].at + cfg[h].timeout
        /\ loop[h].n >= 1 => loop[h].wake = cyc[<<h, loop[h].n>>].at + cfg[h].timeout

\* C9 witness: a cycle has been dispatched while the cycle before it, of the
\* same host, has not finished.
C9_Witness ==
    \E h \in Hosts : \E n \in 1..(MaxCycles - 1) :
        /\ cyc[<<h, n + 1>>].pc # "none"
        /\ cyc[<<h, n>>].pc \notin {"none", "done", "raised"}

AllCyclesFinished(h) ==
    /\ loop[h].n = cfg[h].cycles
    /\ \A n \in 1..cfg[h].cycles : cyc[<<h, n>>].pc \in {"done", "raised"}

\* cycle c waits for an I/O call, its own or one of its folder checks', to end
Suspended(c) ==
    \/ cyc[c].pc \in {"connect", "sftp", "wait_closed"}
    \/ cyc[c].pc = "gather" /\ ~GatherResumes(c)

\* a step of host h: its loop, one of its cycles, or the time its timer awaits
HostStep(h) ==
    \/ Tick
    \/ LoopTick(h)
    \/ \E n \in 1..MaxCycles : CheckerBegin(<<h, n>>) \/ CycleStep(<<h, n>>)

\* C10: while a cycle of one host is suspended at an I/O call, however long,
\* every other host has dispatched each of its cycles at its own interval and
\* is not blocked: it has a step to take until all its cycles have ended.
C10_StuckCycleBlocksNoHost ==
    \A c \in Cyc : \A h \in Checked \ {c[1]} :
        Suspended(c) =>
            /\ \A n \in 1..loop[h].n : cyc[<<h, n>>].at = (n - 1) * cfg[h].timeout
            /\ AllCyclesFinished(h) \/ ENABLED HostStep(h)

\* C10 witness: every cycle of h2 has been dispatched and has ended while the
\* cycle of h1 has been waiting for its get to return.
C10_Witness ==
    /\ AllCyclesFinished("h2")
    /\ cfg["h2"].cycles >= 2
    /\ cyc[<<"h1", 1>>].pc = "gather"
    /\ task[<<"h1", 1>>][1].pc = "get"
    /\ cyc[<<"h1", 1>>].at = 0 /\ clock > 0

\* the way a cycle that has ended went
Outcome(c) ==
    LET cy == cyc[c] IN
    CASE cy.pc = "raised" -> "unhandled"
      [] cy.pc = "done" /\ cy.connRes = "gaierror" -> "dns"
      [] cy.pc = "done" /\ cy.connRes = "Error" -> "connect"
      [] cy.pc = "done" /\ cy.sftpRes = "SFTPError" -> "subsystem"
      [] cy.pc = "done" /\ cy.gexc # "none" -> "folder check"
      [] cy.pc = "done" -> "success"
      [] OTHER -> "running"

\* C11: the loop of a host never ends.  Whatever the outcome of the cycles
\* it has dispatched, while the model follows the host the loop's timer is
\* armed one interval after the last dispatch, the dispatch of the next
\* cycle is enabled as soon as the timer is due, and until then time can
\* pass or the event loop has other work that is ready.
C11_LoopNeverEnds ==
    \A h \in Checked :
        loop[h].n < cfg[h].cycles =>
            /\ loop[h].n >= 1 =>
                  loop[h].wake = cyc[<<h, loop[h].n>>].at + cfg[h].timeout
            /\ clock >= loop[h].wake => ENABLED LoopTick(h)
            /\ clock < loop[h].wake =>
                  \/ ENABLED Tick
                  \/ \E c \in Cyc : Ready(c)
                  \/ \E g \in Checked : ENABLED LoopTick(g)

\* C11 witness: a cycle ended on an exception that no handler caught, and
\* the timer of its host's loop is due for the next cycle.
C11_Witness ==
    \E h \in Checked :
        /\ loop[h].n >= 1 /\ loop[h].n < cfg[h].cycles
        /\ Outcome(<<h, loop[h].n>>) = "unhandled"
        /\ clock >= loop[h].wake

\* an entry that names a host, has an integer port (or none: the default is
\* one), exactly one of password and key file, and a known checker (or
\* none: the default is one)
ValidEntry(d) ==
    /\ d.host # "absent"
    /\ d.port \in {"absent", "int"}
    /\ (d.password # "absent") # (d.client_key_file # "absent")
    /\ d.checker \in {"absent", "noop", "attributes", "put_get_del"}

BothCredentials(d) == d.password # "absent" /\ d.client_key_file # "absent"

\* the entries main() has passed to check() so far
Processed == {k \in 1..Len(main.checks) : k < main.i} \cup main.rejected

\* C12: a loop is started for an entry only if the entry is valid, and for
\* every valid entry that check() was called for; an entry with both a
\* password and a key file raised a configuration error and no loop was
\* started for it.
C12_LoopOnlyForValidEntry ==
    /\ \A k \in main.started : k \in Processed /\ ValidEntry(main.checks[k])
    /\ \A k \in Processed : ValidEntry(main.checks[k]) => k \in main.started
    /\ \A k \in Processed :
          BothCredentials(main.checks[k]) =>
              /\ k \in main.rejected /\ k \notin main.started
              /\ (main.i = k /\ ValidEntry([main.checks[k] EXCEPT !.password = "absent"])) =>
                    main.error = "Either password or client key, but not both"
    /\ main.started \cap main.rejected = {}

\* C12 witness: check() has refused an entry with both credentials, after it
\* had started the loop of an entry before it.
C12_Witness ==
    \E k \in main.rejected :
        /\ BothCredentials(main.checks[k])
        /\ main.error = "Either password or client key, but not both"
        /\ \E j \in main.started : j < k

\* C13: the startup ends in exactly one way.  A missing file ends it with
\* exit code 1 and a file that does not parse with exit code 2; an invalid
\* entry without --skip-wrong-config ends it with exit code 3; in none of
\* the three is the endpoint served.  Otherwise the endpoint is served, with
\* a loop started for exactly the valid entries of the list, wherever the
\* invalid ones stand among them.  Until it has ended the startup has a step.
C13_StartupOutcome ==
    LET invalid == {k \in 1..Len(main.file_checks) : ~ValidEntry(main.file_checks[k])}
        valid == (1..Len(main.file_checks)) \ invalid
        fatal == CASE main.config_file = "missing" -> 1
                   [] main.config_file = "bad_yaml" -> 2
                   [] invalid # {} /\ ~main.skip_wrong_config -> 3
                   [] OTHER -> 0
    IN /\ fatal # 0 =>
            /\ ~main.served
            /\ main.pc # "serving"
            /\ main.pc \in {"exit", "exited"} => main.exit_code = fatal
       /\ fatal = 0 =>
            /\ main.exit_code = 0
            /\ main.pc \in {"serving", "exit", "exited"} =>
                  main.served /\ main.started = valid
       /\ main.pc \notin {"serving", "exited"} => ENABLED NextMain

\* C13 witness: with --skip-wrong-config the endpoint is served, an invalid
\* entry was dropped, and the loops of a valid entry before it and of a
\* valid entry after it were started.
C13_Witness ==
    /\ main.pc = "serving" /\ main.skip_wrong_config
    /\ \E i, j, k \in 1..Len(main.checks) :
          /\ i < j /\ j < k
          /\ ~ValidEntry(main.checks[j])
          /\ {i, k} \subseteq main.started

\* the names for which a folder check has written samples
Reported(t) == {e[2] : e \in t.log}

\* the patterns of host h as fnmatch gets them
GlobsOf(h) ==
    IF cfg[h].smart_pattern_date
    THEN [k \in DOMAIN cfg[h].patterns |->
             strftime(dateparser_parse(cfg[h].base_pattern_date), cfg[h].patterns[k])]
    ELSE cfg[h].patterns

\* some pattern of host h matches the name f as a glob
Globbed(h, f) == \E k \in DOMAIN GlobsOf(h) : fnmatch(f, GlobsOf(h)[k])

\* the three attribute samples of name f, with the values the server gave
AttrSamples(h, t, f) ==
    /\ {"sftp_file_modified_timestamp", "sftp_file_access_timestamp",
         "sftp_file_size"} \X {f} \subseteq t.log
    /\ AttrLabel("sftp_file_modified_timestamp", h, t.folder, f) \in DOMAIN registry
    /\ registry[AttrLabel("sftp_file_modified_timestamp", h, t.folder, f)] = Attrs(f).mtime
    /\ AttrLabel("sftp_file_access_timestamp", h, t.folder, f) \in DOMAIN registry
    /\ registry[AttrLabel("sftp_file_access_timestamp", h, t.folder, f)] = Attrs(f).atime
    /\ AttrLabel("sftp_file_size", h, t.folder, f) \in DOMAIN registry
    /\ registry[AttrLabel("sftp_file_size", h, t.folder, f)] = Attrs(f).size

\* C14 as claimed: a noop check writes no sample for "." or "..", while an
\* attributes check whose listing holds "." or ".." writes the attribute
\* samples of that name when a pattern matches it.
C14_AttributesReportsDots ==
    \A c \in Cyc : \A i \in DOMAIN task[c] :
        LET t == task[c][i]
            h == c[1]
        IN t.listRes = "Ok" =>
             IF cfg[h].checker = "attributes"
             THEN \A f \in Listing \cap {DOT, DOTDOT} :
                     Globbed(h, f) => AttrSamples(h, t, f)
             ELSE Reported(t) \cap {DOT, DOTDOT} = {}

\* C14, amended: neither check writes a sample for "." or "..", whatever the
\* patterns; an attributes check writes the three attribute samples for
\* exactly the other names of the listing that a pattern matches.
C14_NoCheckReportsDots ==
    /\ \A l \in DOMAIN registry :
          l[1] \in {"sftp_last_seen_timestamp", "sftp_file_modified_timestamp",
                    "sftp_file_access_timestamp", "sftp_file_size"}
              => l[3] \notin {DOT, DOTDOT}
    /\ \A c \in Cyc : \A i \in DOMAIN task[c] :
          LET t == task[c][i]
              h == c[1]
          IN t.listRes = "Ok" =>
               /\ Reported(t) \cap {DOT, DOTDOT} = {}
               /\ cfg[h].checker = "attributes" =>
                     \A f \in Listing \ {DOT, DOTDOT} :
                        IF Globbed(h, f) THEN AttrSamples(h, t, f)
                        ELSE f \notin Reported(t)

\* C14 witness: an attributes check got a listing with "." and "..", a
\* pattern matches both, and it has written the samples of another name.
C14_Witness ==
    \E c \in Cyc : \E i \in DOMAIN task[c] :
        /\ cfg[c[1]].checker = "attributes"
        /\ task[c][i].listRes = "Ok"
        /\ Globbed(c[1], DOT) /\ Globbed(c[1], DOTDOT)
        /\ A_TXT \in Reported(task[c][i])

\* C15 as claimed: with smart date patterns off, a name of the listing is
\* matched exactly when some pattern of the list, taken verbatim as a glob,
\* matches it; no name is matched when the list is empty.
C15_MatchesIffSomeGlob ==
    \A c \in Cyc : \A i \in DOMAIN task[c] :
        LET t == task[c][i]
            P == cfg[c[1]].patterns
        IN (~cfg[c[1]].smart_pattern_date /\ t.listRes = "Ok") =>
             \A f \in Listing :
                f \in Reported(t) <=> \E k \in DOMAIN P : fnmatch(f, P[k])

\* C15, amended: with smart date patterns off, a name other than "." and
\* ".." is matched exactly when some pattern of the list, taken verbatim as
\* a glob, matches it (none does when the list is empty); "." and ".." are
\* never matched, whatever the patterns.
C15_MatchesIffSomeGlobButDots ==
    \A c \in Cyc : \A i \in DOMAIN task[c] :
        LET t == task[c][i]
            P == cfg[c[1]].patterns
        IN (~cfg[c[1]].smart_pattern_date /\ t.listRes = "Ok") =>
             \A f \in Listing :
                f \in Reported(t) <=>
                    (f \notin {DOT, DOTDOT} /\ \E k \in DOMAIN P : fnmatch(f, P[k]))

\* C15 witness: with smart date patterns off and two patterns of which only
\* one matches b.log, a listing has been filtered: b.log is matched and "."
\* is not, though the pattern "*" matches it as a glob.
C15_Witness ==
    \E c \in Cyc : \E i \in DOMAIN task[c] :
        /\ ~cfg[c[1]].smart_pattern_date
        /\ cfg[c[1]].patterns = <<PAT_ALL, PAT_TXT>>
        /\ task[c][i].listRes = "Ok"
        /\ B_LOG \in Reported(task[c][i])
        /\ DOT \notin Reported(task[c][i])

Capabilities == {"sftp_put_file_up", "sftp_get_file_up", "sftp_del_file_up"}

\* the capability samples a folder check has written
CapabilityLog(t) == {e \in t.log : e[1] \in Capabilities}

\* the last-seen samples of a listing of host h
SeenLog(h) ==
    {<<"sftp_last_seen_timestamp", f>> : f \in {g \in Listing \ {DOT, DOTDOT} : Globbed(h, g)}}

\* C16: a put_get_del invocation whose listing, put, get and delete all
\* succeeded and whose bytes came back as written has written exactly the
\* samples put=Ok, get=Ok and del=Ok, stamped with the cycle time, none with
\* state Error or Corrupted, and the last-seen samples of its listing.
C16_SuccessWritesThreeOk ==
    \A c \in Cyc : \A i \in DOMAIN task[c] :
        LET t == task[c][i]
            h == c[1]
        IN (/\ t.listRes = "Ok" /\ t.putRes = "Ok" /\ t.getRes = "Ok"
            /\ t.got = t.contents /\ t.delRes = "Ok") =>
             /\ t.pc = "done"
             /\ CapabilityLog(t) = Capabilities \X {"Ok"}
             /\ t.log = CapabilityLog(t) \cup SeenLog(h)
             /\ \A m \in Capabilities :
                   /\ Held(h, t.folder, m) = {"Ok"}
                   /\ registry[expose(h, t.folder, m, "Ok")] = cyc[c].now
             /\ \A e \in SeenLog(h) :
                   /\ SeenLabel(h, t.folder, e[2]) \in DOMAIN registry
                   /\ registry[SeenLabel(h, t.folder, e[2])] = cyc[c].now

\* C16 witness: an invocation has succeeded in all four steps, and its
\* listing matched a name.
C16_Witness ==
    \E c \in Cyc : \E i \in DOMAIN task[c] :
        LET t == task[c][i] IN
        /\ t.listRes = "Ok" /\ t.putRes = "Ok" /\ t.getRes = "Ok"
        /\ t.got = t.contents /\ t.delRes = "Ok"
        /\ SeenLog(c[1]) # {}

\* C17: a put_get_del invocation lists first.  Until its listing has
\* returned it has prepared and attempted no put; once it is past the
\* listing the last-seen samples are written; and when the listing raised,
\* the invocation ended there: no put, get or delete was attempted and no
\* capability sample was written.
C17_ListingBeforePut ==
    \A c \in Cyc : \A i \in DOMAIN task[c] :
        LET t == task[c][i]
            h == c[1]
        IN cfg[h].checker = "put_get_del" =>
             /\ t.listRes = "none" =>
                   /\ t.pc = "listdir" /\ t.log = {}
                   /\ t.contents = NoBytes /\ ~t.pathw
                   /\ t.putRes = "none"
             /\ (t.pc \in {"put", "get", "remove"} \/ t.putRes # "none") =>
                   t.listRes = "Ok" /\ SeenLog(h) \subseteq t.log
             /\ t.listRes \notin {"none", "Ok"} =>
                   /\ t.pc = "raised" /\ t.exc = t.listRes
                   /\ t.putRes = "none" /\ t.getRes = "none" /\ t.delRes = "none"
                   /\ t.contents = NoBytes /\ ~t.pathw
                   /\ t.log = {}
                   /\ \A m \in Capabilities : Held(h, t.folder, m) = {}

\* C17 witness: the listing of one invocation raised on an open session
\* while a sibling, whose listing returned, has had its put attempted.
C17_Witness ==
    \E c \in Cyc : \E i, j \in DOMAIN task[c] :
        /\ task[c][i].listRes = "SFTPError" /\ task[c][i].pc = "raised"
        /\ task[c][j].listRes = "Ok" /\ task[c][j].putRes = "Ok"

\* C18: a cycle writes at most one host-health state; in particular a cycle
\* that has written state Ok writes no failure state afterwards, whatever
\* its folder checks do.
C18_OneHealthStatePerCycle ==
    \A c \in Cyc :
        /\ Len(cyc[c].health) <= 1
        /\ \A k \in 1..Len(cyc[c].health) :
              cyc[c].health[k] = "Ok" =>
                  \A j \in (k + 1)..Len(cyc[c].health) :
                      cyc[c].health[j] \notin {"ConnectError", "DNSError", "SFTPError"}

\* C19: put_get_del invocations that work on the same remote probe path at
\* the same time, in overlapping cycles or for a folder configured twice, do
\* not interfere: on a faithful server none of them writes get=Corrupted,
\* get=Error or del=Error.
C19_SharedPathNoInterference ==
    \A c \in Cyc : \A i \in DOMAIN task[c] :
        cfg[c[1]].faithful =>
            task[c][i].log \cap {<<"sftp_get_file_up", "Corrupted">>,
                                 <<"sftp_get_file_up", "Error">>,
                                 <<"sftp_del_file_up", "Error">>} = {}

\* the gauges whose value is the time of a cycle
Stamped ==
    {"sftp_last_seen_timestamp", "sftp_host_up"} \cup Capabilities

\* C20: under no label tuple does the timestamp of a gauge that holds the
\* cycle time decrease from one write to the next, overlapping cycles of a
\* host included.
C20_TimestampsNeverDecrease ==
    [][\A l \in DOMAIN registry :
          l[1] \in Stamped => registry'[l] >= registry[l]]_vars

====
